---- MODULE Spec2Model ----
(***************************************************************************)
(* A model of play_2048: the Board (src/src/lib.rs), its move engine       *)
(* (coord_iter, collapse, apply_move), the spawner (add_square), the       *)
(* incremental terminal Renderer, and the game loop of src/src/main.rs.    *)
(*                                                                         *)
(* Option<T> is modelled as a sequence of length 0 (None) or 1 (Some(x)).  *)
(* A Square is its exponent (the u8 inside), a Board is rows[y][x] with    *)
(* x, y in 0..3, exactly as the code indexes it.                           *)
(***************************************************************************)
EXTENDS Integers, Sequences, FiniteSets, TLC

VARIABLES
    pc,          \* main: position of the program ("idle" while a harness runs)
    board,       \* main: `board`
    renderer,    \* the Renderer: [output, size, cursor_row, old_board]
    raw_mode,    \* terminal raw mode (crossterm enable/disable_raw_mode)
    event,       \* main: the event most recently returned by event::read()
    events,      \* number of events read so far
    call,        \* harness: the Board / Renderer operation most recently called
    calls,       \* harness: number of Renderer operations called so far
    arg,         \* harness: the board passed to that operation
    direction,   \* harness: the Move passed to apply_move
    ret,         \* harness: the board apply_move returned / add_square left
    result,      \* harness: "Ok" / "Err" of the last Renderer call
    line,        \* collapse: the 4 cells read in travel order
    collapser,   \* collapse: the Collapser, [inner, last_seen]
    collapsed,   \* collapse: the items next() has returned so far
    merged       \* collapse: the squares (v of each pair (v, v)) merged so far

vars == <<pc, board, renderer, raw_mode, event, events,
          call, calls, arg, direction, ret, result,
          line, collapser, collapsed, merged>>

----------------------------------------------------------------------------
(* Bounds of the model *)

\* largest exponent of a tile on an input board
MaxExp == 1
\* largest number of tiles on a sparse input board
MaxTiles == 2
\* number of events the game loop reads
MaxEvents == 2
\* number of Renderer calls a renderer harness makes
MaxCalls == 3

----------------------------------------------------------------------------
(* Program constants *)

SIZE == 4
MAX_DIGIT_WIDTH == 5

None == <<>>
Some(x) == <<x>>

Moves == {"Up", "Down", "Left", "Right"}

Index == 0 .. (SIZE - 1)

\* Board::new, lib.rs:64-68
BoardNew == [y \in Index |-> [x \in Index |-> None]]

\* Square::inc, lib.rs:33-35 (exponents stay far below the u8 range here)
incBroken(sq) == sq + 2
inc(sq) == sq + 1

RECURSIVE Pow2(_)
Pow2(n) == IF n = 0 THEN 1 ELSE 2 * Pow2(n - 1)

\* the number a square shows: `2 << cell.0`, lib.rs:212
Value(sq) == 2 * Pow2(sq)

----------------------------------------------------------------------------
(* Board::coord_iter, lib.rs:70-79: the 4 coordinates (x, y) of line       *)
(* `offset`, in travel order.                                              *)

stepsSameForAll(d) == <<0, 1, 2, 3>>
steps(d) ==
    IF d \in {"Up", "Left"} THEN <<0, 1, 2, 3>> ELSE <<3, 2, 1, 0>>

coord_iterDownAsRow(d, offset) ==
    [k \in 1 .. SIZE |->
        IF d = "Up" THEN <<offset, steps(d)[k]>>
                    ELSE <<steps(d)[k], offset>>]
coord_iter(d, offset) ==
    [k \in 1 .. SIZE |->
        IF d \in {"Up", "Down"} THEN <<offset, steps(d)[k]>>
                                ELSE <<steps(d)[k], offset>>]

----------------------------------------------------------------------------
(* Board::collapse, lib.rs:81-117 *)

\* input.filter_map(|x| x), lib.rs:82
only_cellsUnfiltered(input) ==
    [k \in 1 .. Len(input) |-> IF input[k] = None THEN 0 ELSE input[k][1]]
only_cells(input) ==
    LET occupied == SelectSeq(input, LAMBDA c : c # None)
    IN  [k \in 1 .. Len(occupied) |-> occupied[k][1]]

\* Collapser { inner: only_cells, last_seen: None }, lib.rs:113-116
CollapserNew(input) == [inner |-> only_cells(input), last_seen |-> None]

(* Collapser::next, lib.rs:91-110.  Returns the item (an Option<Square>),   *)
(* the iterator's state after the call, and `pair`: Some(v) when the call  *)
(* took the merge arm of line 94 for a pair (v, v), None otherwise.        *)
RECURSIVE CollapserNextRemerge(_)
CollapserNextRemerge(c) ==
    IF c.last_seen # None
    THEN LET last == c.last_seen[1] IN
         IF c.inner = <<>>
         THEN [item |-> Some(last), pair |-> None,
               c |-> [inner |-> <<>>, last_seen |-> None]]
         ELSE IF Head(c.inner) = last
         THEN CollapserNextRemerge([inner |-> Tail(c.inner),
                                    last_seen |-> Some(inc(last))])
         ELSE [item |-> Some(last), pair |-> None,
               c |-> [inner |-> Tail(c.inner), last_seen |-> Some(Head(c.inner))]]
    ELSE IF c.inner = <<>>
         THEN [item |-> None, pair |-> None, c |-> c]
         ELSE CollapserNextRemerge([inner |-> Tail(c.inner),
                                    last_seen |-> Some(Head(c.inner))])

RECURSIVE CollapserNext(_)
CollapserNext(c) ==
    IF c.last_seen # None
    THEN LET last == c.last_seen[1] IN
         IF c.inner = <<>>
         THEN [item |-> Some(last), pair |-> None,
               c |-> [inner |-> <<>>, last_seen |-> None]]
         ELSE IF Head(c.inner) = last
         THEN [item |-> Some(inc(Head(c.inner))), pair |-> Some(last),
               c |-> [inner |-> Tail(c.inner), last_seen |-> None]]
         ELSE [item |-> Some(last), pair |-> None,
               c |-> [inner |-> Tail(c.inner), last_seen |-> Some(Head(c.inner))]]
    ELSE IF c.inner = <<>>
         THEN [item |-> None, pair |-> None, c |-> c]
         ELSE CollapserNext([inner |-> Tail(c.inner),
                             last_seen |-> Some(Head(c.inner))])

\* the items the iterator yields until it returns None
RECURSIVE Drain(_)
Drain(c) ==
    LET n == CollapserNext(c)
    IN  IF n.item = None THEN <<>> ELSE <<n.item[1]>> \o Drain(n.c)

collapse(input) == Drain(CollapserNew(input))

----------------------------------------------------------------------------
(* Board::apply_move, lib.rs:119-134 *)

\* self.rows[y][x] along coord_iter(direction, offset), lib.rs:124
existing(b, d, offset) ==
    LET read_coords == coord_iter(d, offset)
    IN  [k \in 1 .. SIZE |-> b[read_coords[k][2]][read_coords[k][1]]]

(* lib.rs:126-130: write the collapsed cells along write_coords, cell k to   *)
(* the k-th coordinate (a cell beyond the 4th is TooManyCells below)       *)
RECURSIVE WriteCells(_, _, _, _)
WriteCells(output, write_coords, cells, k) ==
    IF k > Len(cells) \/ k > SIZE THEN output
    ELSE WriteCells([output EXCEPT ![write_coords[k][2]][write_coords[k][1]] =
                                        Some(cells[k])],
                    write_coords, cells, k + 1)

WriteLineMirrored(output, d, offset, cells) ==
    WriteCells(output, coord_iter(d, SIZE - 1 - offset), cells, 1)
WriteLine(output, d, offset, cells) ==
    WriteCells(output, coord_iter(d, offset), cells, 1)

\* lib.rs:128: write_coords.next() fails with "Too many cells post-collapse"
TooManyCells(b, d) ==
    \E offset \in Index : Len(collapse(existing(b, d, offset))) > SIZE

\* the loop `for offset in 0..4`, lib.rs:123-131
RECURSIVE MoveLines(_, _, _, _)
MoveLines(self, output, d, offset) ==
    IF offset = SIZE THEN output
    ELSE MoveLines(self,
                   WriteLine(output, d, offset, collapse(existing(self, d, offset))),
                   d, offset + 1)

apply_move(self, d) == MoveLines(self, BoardNew, d, 0)

----------------------------------------------------------------------------
(* Board::add_square, lib.rs:137-150 *)

\* (0..4).flat_map(|y| (0..4).map(move |x| (x, y))), lib.rs:138
coords == [i \in 1 .. SIZE * SIZE |-> <<(i - 1) % SIZE, (i - 1) \div SIZE>>]

\* lib.rs:139-141
free_spaces(b) == SelectSeq(coords, LAMBDA p : b[p[2]][p[1]] = None)

\* lib.rs:147: `if rng.gen() { Square(1) } else { Square(0) }`
new_cell(gen) == IF gen THEN 1 ELSE 0

add_squareOverwrite(b, space_choice, gen) ==
    LET p == coords[space_choice + 1]
    IN  [b EXCEPT ![p[2]][p[1]] = Some(new_cell(gen))]

\* space_choice is rng.gen_range(0..free_spaces.len()), gen is rng.gen()
add_square(b, space_choice, gen) ==
    IF free_spaces(b) = <<>> THEN b
    ELSE LET p == free_spaces(b)[space_choice + 1]
         IN  [b EXCEPT ![p[2]][p[1]] = Some(new_cell(gen))]

\* main.rs:23-25: Board::new() and two add_square calls
NewGame(choice1, gen1, choice2, gen2) ==
    add_square(add_square(BoardNew, choice1, gen1), choice2, gen2)

(* the values rng.gen_range(0..n) is drawn from in the model: the two ends  *)
(* of the range, so the first or the last free cell in row-major order     *)
SpaceChoices(n) == {i \in 0 .. (n - 1) : i = 0 \/ i = n - 1}

----------------------------------------------------------------------------
(* The terminal output stream.  A queued crossterm command is              *)
(* [op, n, text] with n its numeric arguments; text written with           *)
(* write!/writeln! is op "Write" with the characters written.              *)

Cmd(op, n) == [op |-> op, n |-> n, text |-> <<>>]
Write(text) == [op |-> "Write", n |-> <<>>, text |-> text]
Newline == Write(<<"\n">>)

\* Square::color, lib.rs:37-59: (r, g, b, is_dark) by exponent
Palette ==
    << <<238, 228, 218, TRUE>>,  <<237, 224, 200, TRUE>>,
       <<242, 177, 121, FALSE>>, <<245, 149, 99, FALSE>>,
       <<246, 124, 95, FALSE>>,  <<246, 94, 59, FALSE>>,
       <<237, 207, 114, TRUE>>,  <<237, 204, 97, FALSE>>,
       <<237, 200, 80, FALSE>>,  <<237, 197, 63, FALSE>>,
       <<237, 194, 68, FALSE>>,  <<181, 134, 180, FALSE>>,
       <<168, 97, 171, FALSE>>,  <<160, 72, 163, FALSE>>,
       <<128, 0, 128, FALSE>>,   <<96, 0, 70, FALSE>> >>

\* lib.rs:55: the `_ => unreachable!()` arm
color_unreachable(sq) == sq + 1 > Len(Palette)

color(sq) == Palette[sq + 1]

DigitChars == <<"0", "1", "2", "3", "4", "5", "6", "7", "8", "9">>

RECURSIVE Digits(_)
Digits(n) ==
    IF n < 10 THEN <<DigitChars[n + 1]>>
    ELSE Digits(n \div 10) \o <<DigitChars[(n % 10) + 1]>>

RECURSIVE PadLeft(_, _)
PadLeft(text, width) ==
    IF Len(text) >= width THEN text ELSE PadLeft(<<" ">> \o text, width)

\* format!("{:5}", n), lib.rs:212: right-justified, at least 5 characters
Fmt5(n) == PadLeft(Digits(n), 5)

\* Renderer::draw_cell, lib.rs:195-215: the commands it queues
draw_cell(cell) ==
    LET c == color(cell)
    IN  <<Cmd("SetBackgroundColor", <<c[1], c[2], c[3]>>)>>
        \o (IF c[4]
            THEN <<Cmd("SetForegroundColor(Black)", <<>>)>>
            ELSE <<Cmd("SetForegroundColor(White)", <<>>),
                   Cmd("SetAttribute(Bold)", <<>>)>>)
        \o <<Write(Fmt5(Value(cell))), Cmd("ResetColor", <<>>)>>

\* write!(self.output, "     "), lib.rs:264
Blank == Write(<<" ", " ", " ", " ", " ">>)

----------------------------------------------------------------------------
(* The Renderer, lib.rs:154-160: [output, size, cursor_row, old_board].    *)
(* `output` is everything written to the terminal stream so far.           *)

\* Renderer::resize, lib.rs:188-193
resizeKeepsSnapshot(r, new_size) == [r EXCEPT !.size = new_size]
resize(r, new_size) == [r EXCEPT !.size = new_size, !.old_board = None]

\* lib.rs:167-176: the 5 reserved lines, then the struct as it is first built
RendererBuilt(stdout) ==
    [output |-> stdout \o [i \in 1 .. (SIZE + 1) |-> Newline],
     size |-> <<0, 0>>,
     cursor_row |-> SIZE + 1,
     old_board |-> None]

\* lib.rs:178: renderer.output.queue(cursor::Hide)
HideCursor(r) == [r EXCEPT !.output = @ \o <<Cmd("Hide", <<>>)>>]

\* Renderer::new, lib.rs:164-184 (enable_raw_mode is in the calling action)
RendererNew(stdout, terminal_size) ==
    resize(HideCursor(RendererBuilt(stdout)), terminal_size)

\* lib.rs:231
TooSmallEither(size) == size[1] < SIZE * MAX_DIGIT_WIDTH /\ size[2] < SIZE
TooSmall(size) == size[1] < SIZE * MAX_DIGIT_WIDTH \/ size[2] < SIZE

\* lib.rs:241: `if old == new { continue; }`
CellChangedAlways(old, new) == TRUE
CellChanged(old, new) == old # new

\* lib.rs:248-256: the vertical move from cursor_row to screen_row
MoveToRowAssumed(cursor_row, screen_row) ==
    IF screen_row < SIZE - 1
    THEN <<Cmd("MoveUp", <<SIZE - 1 - screen_row>>)>>
    ELSE <<>>
MoveToRow(cursor_row, screen_row) ==
    IF screen_row < cursor_row
    THEN <<Cmd("MoveUp", <<cursor_row - screen_row>>)>>
    ELSE IF screen_row = cursor_row THEN <<>>
    ELSE <<Cmd("MoveDown", <<screen_row - cursor_row>>)>>

\* lib.rs:239-267: the incremental redraw, cell i = 4 * row_id + col_id
RECURSIVE DrawDiff(_, _, _, _)
DrawDiff(r, old, new, i) ==
    IF i = SIZE * SIZE THEN r
    ELSE LET row_id == i \div SIZE
             col_id == i % SIZE
         IN  IF ~CellChanged(old[row_id][col_id], new[row_id][col_id])
             THEN DrawDiff(r, old, new, i + 1)
             ELSE LET screen_row == row_id
                      screen_col == MAX_DIGIT_WIDTH * col_id
                      out == r.output
                             \o MoveToRow(r.cursor_row, screen_row)
                             \o <<Cmd("MoveToColumn", <<screen_col>>)>>
                             \o (IF new[row_id][col_id] # None
                                 THEN draw_cell(new[row_id][col_id][1])
                                 ELSE <<Blank>>)
                  IN  DrawDiff([r EXCEPT !.output = out, !.cursor_row = screen_row],
                               old, new, i + 1)

\* lib.rs:273-291: one row of the full redraw
DrawRow(row) ==
    <<Cmd("MoveDown", <<1>>), Cmd("MoveToColumn", <<0>>)>>
    \o (IF row[0] # None THEN draw_cell(row[0][1])
                         ELSE <<Cmd("MoveRight", <<MAX_DIGIT_WIDTH>>)>>)
    \o (IF row[1] # None THEN draw_cell(row[1][1])
                         ELSE <<Cmd("MoveRight", <<MAX_DIGIT_WIDTH>>)>>)
    \o (IF row[2] # None THEN draw_cell(row[2][1])
                         ELSE <<Cmd("MoveRight", <<MAX_DIGIT_WIDTH>>)>>)
    \o (IF row[3] # None THEN draw_cell(row[3][1])
                         ELSE <<Cmd("MoveRight", <<MAX_DIGIT_WIDTH>>)>>)

\* lib.rs:268-293: the full redraw
DrawFull(r, b) ==
    [r EXCEPT !.output = @ \o (IF r.cursor_row # 0
                               THEN <<Cmd("MoveUp", <<r.cursor_row>>)>>
                               ELSE <<>>)
                           \o DrawRow(b[0]) \o DrawRow(b[1])
                           \o DrawRow(b[2]) \o DrawRow(b[3]),
              !.cursor_row = SIZE - 1]

\* lib.rs:295: self.old_board = Some(*board)
StoreSnapshot(r, b) == [r EXCEPT !.old_board = Some(b)]

\* Renderer::draw_board, lib.rs:230-297: [res, r] with r the renderer after
draw_board(r, b) ==
    IF TooSmall(r.size) THEN [res |-> "Err", r |-> r]
    ELSE LET drawn == IF r.old_board # None
                      THEN DrawDiff(r, r.old_board[1], b, 0)
                      ELSE DrawFull(r, b)
             kept == StoreSnapshot(drawn, b)
         IN  [res |-> "Ok",
              r |-> [kept EXCEPT !.output = @ \o <<Cmd("Flush", <<>>)>>]]

GameOverText == <<"G", "a", "m", "e", " ", "o", "v", "e", "r">>

\* Renderer::lose, lib.rs:218-227
loseFromLastRow(r) ==
    [r EXCEPT !.output = @
        \o <<Cmd("MoveDown", <<2>>),
             Cmd("MoveToColumn",
                 <<(SIZE * MAX_DIGIT_WIDTH - Len(GameOverText)) \div 2>>),
             Write(GameOverText),
             Cmd("Flush", <<>>)>>]
lose(r) ==
    [r EXCEPT !.output = @
        \o <<Cmd("MoveDown", <<1 + SIZE - r.cursor_row>>),
             Cmd("MoveToColumn",
                 <<(SIZE * MAX_DIGIT_WIDTH - Len(GameOverText)) \div 2>>),
             Write(GameOverText),
             Cmd("Flush", <<>>)>>]

\* Drop for Renderer, lib.rs:300-308 (disable_raw_mode is in the calling action)
dropCursorHidden(r) ==
    [r EXCEPT !.output = @ \o <<Cmd("Flush", <<>>), Newline, Cmd("Flush", <<>>)>>]
drop(r) ==
    [r EXCEPT !.output = @
        \o <<Cmd("Flush", <<>>), Cmd("Show", <<>>), Newline, Cmd("Flush", <<>>)>>]

----------------------------------------------------------------------------
(* Inputs of the model *)

Cells == {None} \cup {Some(e) : e \in 0 .. MaxExp}

\* the lines of 4 cells
Lines == [1 .. SIZE -> Cells]

Positions == Index \X Index

\* the board holding square f[p] at each position p of S
BoardOf(S, f) ==
    [y \in Index |-> [x \in Index |->
        IF <<x, y>> \in S THEN Some(f[<<x, y>>]) ELSE None]]

\* the sets of at most MaxTiles positions
SparsePositions == {T \in SUBSET Positions : Cardinality(T) <= MaxTiles}

\* the board with line l as row o (or column o), the rest empty
RowBoard(o, l) ==
    [y \in Index |-> [x \in Index |-> IF y = o THEN l[x + 1] ELSE None]]
ColumnBoard(o, l) ==
    [y \in Index |-> [x \in Index |-> IF x = o THEN l[y + 1] ELSE None]]

\* the full lines, and the boards whose rows (or columns) alternate between two
FullLines == [1 .. SIZE -> {Some(e) : e \in 0 .. MaxExp}]
RowStripes(p, q) ==
    [y \in Index |-> [x \in Index |-> IF y % 2 = 0 THEN p[x + 1] ELSE q[x + 1]]]
ColumnStripes(p, q) ==
    [y \in Index |-> [x \in Index |-> IF x % 2 = 0 THEN p[y + 1] ELSE q[y + 1]]]

(* b is an input board: a board with at most MaxTiles tiles anywhere, a     *)
(* board with one row or column of any content, or a full striped board    *)
IsInputBoard(b) ==
    \/ \E S \in SparsePositions : \E f \in [S -> 0 .. MaxExp] : b = BoardOf(S, f)
    \/ \E o \in Index, l \in Lines : b = RowBoard(o, l) \/ b = ColumnBoard(o, l)
    \/ \E p \in FullLines, q \in FullLines :
          b = RowStripes(p, q) \/ b = ColumnStripes(p, q)

\* terminal sizes (columns, rows): exactly enough, too narrow, too short
Sizes == {<<SIZE * MAX_DIGIT_WIDTH, SIZE>>,
          <<SIZE * MAX_DIGIT_WIDTH - 1, SIZE>>,
          <<SIZE * MAX_DIGIT_WIDTH, SIZE - 1>>}

NoEvent == [kind |-> "none", code |-> "", ctrl |-> FALSE, press |-> FALSE,
            size |-> <<0, 0>>]
Key(code, ctrl, press) ==
    [kind |-> "Key", code |-> code, ctrl |-> ctrl, press |-> press,
     size |-> <<0, 0>>]
Resize(size) ==
    [kind |-> "Resize", code |-> "", ctrl |-> FALSE, press |-> FALSE,
     size |-> size]
\* any other crossterm event (focus, mouse, paste)
OtherEvent == [NoEvent EXCEPT !.kind = "Other"]

\* the key events event::read() returns in the model
KeyEvents ==
    {Key(c, FALSE, TRUE) : c \in {"Up", "Down", "a", "d", "x", "Esc"}}
    \cup {Key("c", TRUE, TRUE), Key("d", TRUE, TRUE), Key("Left", FALSE, FALSE)}

\* values of the variables a specification does not use
NoRenderer ==
    [output |-> <<>>, size |-> <<0, 0>>, cursor_row |-> 0, old_board |-> None]
NoCollapser == [inner |-> <<>>, last_seen |-> None]

MainIdle ==
    /\ pc = "idle" /\ board = BoardNew /\ raw_mode = FALSE
    /\ event = NoEvent /\ events = 0
RendererIdle == renderer = NoRenderer /\ result = "none" /\ calls = 0
BoardCallIdle == call = "none" /\ arg = BoardNew /\ direction = "none" /\ ret = BoardNew
CollapseIdle ==
    /\ line = <<>> /\ collapser = NoCollapser /\ collapsed = <<>> /\ merged = <<>>

mainVars == <<pc, board, raw_mode, event, events>>
collapseVars == <<line, collapser, collapsed, merged>>

----------------------------------------------------------------------------
(* SpecCollapse: Board::collapse on one line, one action per call of       *)
(* Collapser::next.                                                        *)

CollapseInit ==
    /\ MainIdle /\ RendererIdle
    /\ arg = BoardNew /\ direction = "none" /\ ret = BoardNew
    /\ call = "collapse"
    /\ line \in Lines
    /\ collapser = CollapserNew(line)
    /\ collapsed = <<>>
    /\ merged = <<>>

\* one call of next() by the consumer of the iterator (lib.rs:127)
CollapserStep ==
    /\ call = "collapse"
    /\ LET n == CollapserNext(collapser)
       IN  /\ collapser' = n.c
           /\ collapsed' = IF n.item = None THEN collapsed
                           ELSE Append(collapsed, n.item[1])
           /\ merged' = merged \o n.pair
           /\ call' = IF n.item = None THEN "collapsed" ELSE "collapse"
    /\ UNCHANGED <<mainVars, renderer, result, calls, arg, direction, ret, line>>

CollapseNext == CollapserStep

SpecCollapse == CollapseInit /\ [][CollapseNext]_vars

----------------------------------------------------------------------------
(* SpecBoard: one call of Board::apply_move or Board::add_square on an     *)
(* input board.                                                            *)

BoardInit ==
    /\ MainIdle /\ RendererIdle /\ CollapseIdle
    /\ call = "none"
    /\ IsInputBoard(arg)
    /\ direction = "none"
    /\ ret = arg

\* ret = arg.apply_move(d)
CallApplyMove(d) ==
    /\ call = "none"
    /\ call' = "apply_move"
    /\ direction' = d
    /\ ret' = apply_move(arg, d)
    /\ UNCHANGED <<mainVars, renderer, result, calls, arg, collapseVars>>

\* ret = arg after arg.add_square(rng)
CallAddSquare(space_choice, gen) ==
    /\ call = "none"
    /\ call' = "add_square"
    /\ ret' = add_square(arg, space_choice, gen)
    /\ UNCHANGED <<mainVars, renderer, result, calls, arg, direction, collapseVars>>

\* ret = the board main starts with (main.rs:23-25)
CallNewGame(choice1, gen1, choice2, gen2) ==
    /\ call = "none"
    /\ arg = BoardNew
    /\ call' = "new_game"
    /\ ret' = NewGame(choice1, gen1, choice2, gen2)
    /\ UNCHANGED <<mainVars, renderer, result, calls, arg, direction, collapseVars>>

BoardNext ==
    \/ \E d \in Moves : CallApplyMove(d)
    \/ \E choice1 \in SpaceChoices(SIZE * SIZE), gen1 \in BOOLEAN,
          choice2 \in SpaceChoices(SIZE * SIZE - 1), gen2 \in BOOLEAN :
          CallNewGame(choice1, gen1, choice2, gen2)
    \/ \E space_choice \in SpaceChoices(Len(free_spaces(arg))) \cup
                           (IF free_spaces(arg) = <<>> THEN {0} ELSE {}),
          gen \in BOOLEAN : CallAddSquare(space_choice, gen)

SpecBoard == BoardInit /\ [][BoardNext]_vars

----------------------------------------------------------------------------
(* SpecRender: a Renderer just created, then any MaxCalls calls of         *)
(* draw_board and resize.                                                  *)

\* the cells the boards drawn by this specification use: the diagonal and (3, 0)
ProbePositions == {<<i, i>> : i \in Index} \cup {<<SIZE - 1, 0>>}

RenderInit ==
    /\ pc = "idle" /\ board = BoardNew /\ event = NoEvent /\ events = 0
    /\ CollapseIdle
    /\ direction = "none" /\ ret = BoardNew
    /\ raw_mode = TRUE
    /\ \E terminal_size \in Sizes : renderer = RendererNew(<<>>, terminal_size)
    /\ call = "new"
    /\ calls = 0
    /\ arg = BoardNew
    /\ result = "Ok"

\* renderer.draw_board(&b)
CallDrawBoard(b) ==
    /\ calls < MaxCalls
    /\ call # "lose"
    /\ LET drawn == draw_board(renderer, b)
       IN  /\ renderer' = drawn.r
           /\ result' = drawn.res
    /\ call' = "draw_board"
    /\ arg' = b
    /\ calls' = calls + 1
    /\ UNCHANGED <<mainVars, direction, ret, collapseVars>>

\* renderer.resize(new_size)
CallResize(new_size) ==
    /\ calls < MaxCalls
    /\ call # "lose"
    /\ renderer' = resize(renderer, new_size)
    /\ result' = "Ok"
    /\ call' = "resize"
    /\ calls' = calls + 1
    /\ UNCHANGED <<mainVars, arg, direction, ret, collapseVars>>

\* renderer.lose(); main calls nothing but drop after it (main.rs:64-67)
CallLose ==
    /\ calls < MaxCalls
    /\ call # "lose"
    /\ renderer' = lose(renderer)
    /\ result' = "Ok"
    /\ call' = "lose"
    /\ calls' = calls + 1
    /\ UNCHANGED <<mainVars, arg, direction, ret, collapseVars>>

RenderNext ==
    \/ \E p \in ProbePositions, c \in Cells :
          CallDrawBoard([BoardNew EXCEPT ![p[2]][p[1]] = c])
    \/ \E new_size \in Sizes : CallResize(new_size)
    \/ CallLose

SpecRender == RenderInit /\ [][RenderNext]_vars

----------------------------------------------------------------------------
(* Spec: the program, main.rs:19-78.                                       *)

\* is_exit_request, main.rs:5-17
is_exit_request(key_event) ==
    \/ key_event.code = "Esc"
    \/ key_event.ctrl /\ key_event.code \in {"c", "d"}

\* main.rs:40-46: the Move of a key code, "none" for `_ => continue`
KeyAction(code) ==
    CASE code \in {"Up", "w"} -> "Up"
      [] code \in {"Down", "s"} -> "Down"
      [] code \in {"Left", "a"} -> "Left"
      [] code \in {"Right", "d"} -> "Right"
      [] OTHER -> "none"

\* main.rs:48: `if new_board == board { continue; }`
IsNoopNever(new_board, old_board) == FALSE
IsNoop(new_board, old_board) == new_board = old_board

\* main.rs:55-62
aliveAlways(b) == TRUE
aliveSideways(b) == \E d \in {"Left", "Right"} : apply_move(b, d) # b
alive(b) == \E d \in Moves : apply_move(b, d) # b

Init ==
    /\ pc = "start"
    /\ board = BoardNew
    /\ renderer = NoRenderer
    /\ raw_mode = FALSE
    /\ event = NoEvent
    /\ events = 0
    /\ BoardCallIdle /\ CollapseIdle
    /\ result = "none" /\ calls = 0

harnessVars == <<call, calls, arg, direction, ret, result, collapseVars>>

\* main.rs:23-25
MainSetup(choice1, gen1, choice2, gen2) ==
    /\ pc = "start"
    /\ board' = NewGame(choice1, gen1, choice2, gen2)
    /\ pc' = "new"
    /\ UNCHANGED <<renderer, raw_mode, event, events, harnessVars>>

(* main.rs:27, Renderer::new up to lib.rs:176: the reserved lines are       *)
(* written, raw mode is enabled and the Renderer exists                    *)
MainEnableRawMode ==
    /\ pc = "new"
    /\ renderer' = RendererBuilt(renderer.output)
    /\ raw_mode' = TRUE
    /\ pc' = "hide"
    /\ UNCHANGED <<board, event, events, harnessVars>>

\* main.rs:27, the rest of Renderer::new (lib.rs:178-183)
MainNewRenderer(terminal_size) ==
    /\ pc = "hide"
    /\ renderer' = resize(HideCursor(renderer), terminal_size)
    /\ raw_mode' = raw_mode
    /\ pc' = "draw"
    /\ UNCHANGED <<board, event, events, harnessVars>>

(* main returns (a `break`, or an error leaving through `?`): the renderer  *)
(* is dropped, lib.rs:300-308                                              *)
Leave(r, how) ==
    /\ renderer' = drop(r)
    /\ raw_mode' = FALSE
    /\ pc' = how

(* Renderer::new returns an error before the Renderer exists: k of the 5    *)
(* writeln! succeeded (lib.rs:168), or all 5 and enable_raw_mode failed    *)
(* (lib.rs:170); raw mode was not enabled and there is nothing to drop     *)
MainNewFailsEarly(k) ==
    /\ pc = "new"
    /\ renderer' = [renderer EXCEPT !.output = @ \o [i \in 1 .. k |-> Newline]]
    /\ pc' = "failed"
    /\ UNCHANGED <<board, raw_mode, event, events, harnessVars>>

(* Renderer::new returns an error after the Renderer was built: queueing    *)
(* Hide failed (lib.rs:178, hidden = FALSE) or terminal::size() failed     *)
(* (lib.rs:180, hidden = TRUE); the Renderer is dropped                    *)
MainNewFails(hidden) ==
    /\ pc = "hide"
    /\ Leave(IF hidden THEN HideCursor(renderer) ELSE renderer, "failed")
    /\ UNCHANGED <<board, event, events, harnessVars>>

\* main.rs:28: renderer.draw_board(&board)?
MainFirstDraw ==
    /\ pc = "draw"
    /\ LET drawn == draw_board(renderer, board)
       IN  IF drawn.res = "Ok"
           THEN renderer' = drawn.r /\ raw_mode' = raw_mode /\ pc' = "loop"
           ELSE Leave(drawn.r, "failed")
    /\ UNCHANGED <<board, event, events, harnessVars>>

\* event::read() returns e, main.rs:31
Read(e) ==
    /\ pc = "loop"
    /\ events < MaxEvents
    /\ event' = e
    /\ events' = events + 1

\* main.rs:31: event::read()? returns an error
ReadError ==
    /\ pc = "loop"
    /\ Leave(renderer, "failed")
    /\ UNCHANGED <<board, event, events, harnessVars>>

\* main.rs:32-34: an exit request
ReadExit(e) ==
    /\ Read(e)
    /\ e.kind = "Key" /\ is_exit_request(e)
    /\ Leave(renderer, "done")
    /\ UNCHANGED <<board, harnessVars>>

\* the values of rng.gen_range when add_square is called on board b
SpawnChoices(b) ==
    IF free_spaces(b) = <<>> THEN {0} ELSE SpaceChoices(Len(free_spaces(b)))

(* main.rs:47-67: what the loop does with the Move of key event e;         *)
(* space_choice and gen are what rng returns inside add_square             *)
HandleMove(e, space_choice, gen) ==
    LET new_board == apply_move(board, KeyAction(e.code))
    IN  IF IsNoop(new_board, board)
        THEN UNCHANGED <<board, renderer, raw_mode, pc>>
        ELSE LET spawned == add_square(new_board, space_choice, gen)
                 drawn == draw_board(renderer, spawned)
             IN  /\ board' = spawned
                 /\ IF drawn.res # "Ok" THEN Leave(drawn.r, "failed")
                    ELSE IF ~alive(spawned) THEN Leave(lose(drawn.r), "done")
                    ELSE /\ renderer' = drawn.r
                         /\ raw_mode' = raw_mode
                         /\ pc' = "loop"

\* main.rs:35-68: a key press that maps to a Move
ReadMove(e) ==
    /\ Read(e)
    /\ e.kind = "Key" /\ ~is_exit_request(e) /\ e.press
    /\ KeyAction(e.code) # "none"
    /\ \E space_choice \in SpawnChoices(apply_move(board, KeyAction(e.code))),
          gen \in BOOLEAN : HandleMove(e, space_choice, gen)
    /\ UNCHANGED harnessVars

\* main.rs:45: a key press of any other key
ReadOtherKey(e) ==
    /\ Read(e)
    /\ e.kind = "Key" /\ ~is_exit_request(e) /\ e.press
    /\ KeyAction(e.code) = "none"
    /\ UNCHANGED <<board, renderer, raw_mode, pc, harnessVars>>

\* main.rs:69-72
ReadResize(e) ==
    /\ Read(e)
    /\ e.kind = "Resize"
    /\ LET drawn == draw_board(resize(renderer, e.size), board)
       IN  IF drawn.res = "Ok"
           THEN renderer' = drawn.r /\ raw_mode' = raw_mode /\ pc' = "loop"
           ELSE Leave(drawn.r, "failed")
    /\ UNCHANGED <<board, harnessVars>>

\* main.rs:73: `_ => {}`, a key release or repeat, or any other event
ReadIgnored(e) ==
    /\ Read(e)
    /\ \/ e.kind = "Other"
       \/ e.kind = "Key" /\ ~is_exit_request(e) /\ ~e.press
    /\ UNCHANGED <<board, renderer, raw_mode, pc, harnessVars>>

Next ==
    \/ \E choice1 \in SpaceChoices(SIZE * SIZE), gen1 \in BOOLEAN,
          choice2 \in SpaceChoices(SIZE * SIZE - 1), gen2 \in BOOLEAN :
          MainSetup(choice1, gen1, choice2, gen2)
    \/ MainEnableRawMode
    \/ \E terminal_size \in Sizes : MainNewRenderer(terminal_size)
    \/ \E k \in 0 .. (SIZE + 1) : MainNewFailsEarly(k)
    \/ \E hidden \in BOOLEAN : MainNewFails(hidden)
    \/ MainFirstDraw
    \/ ReadError
    \/ \E e \in KeyEvents : ReadExit(e)
    \/ \E e \in KeyEvents : ReadMove(e)
    \/ \E e \in KeyEvents : ReadOtherKey(e)
    \/ \E terminal_size \in Sizes : ReadResize(Resize(terminal_size))
    \/ \E e \in KeyEvents \cup {OtherEvent} : ReadIgnored(e)

Spec == Init /\ [][Next]_vars

----------------------------------------------------------------------------
(* SpecEndgame: the program on a terminal of 20 x 4, fed an opening of 14  *)
(* moves that fills the board without a merge, then any MaxEvents events.  *)
(* `calls` counts the moves of the opening fed so far.                     *)

(* the opening: the board starts as 2 4 . . in row 0; each entry is the key *)
(* event::read() returns and the values of rng.gen_range and rng.gen in    *)
(* the add_square that follows                                             *)
Opening ==
    << <<"Right", 0, FALSE>>, <<"Down", 0, FALSE>>, <<"Up", 1, FALSE>>,
       <<"Left", 0, FALSE>>,  <<"Right", 0, FALSE>>, <<"Right", 0, FALSE>>,
       <<"Left", 0, FALSE>>,  <<"Down", 0, FALSE>>,  <<"Down", 0, TRUE>>,
       <<"Up", 0, TRUE>>,     <<"Down", 0, FALSE>>,  <<"Right", 0, FALSE>>,
       <<"Left", 3, TRUE>>,   <<"Right", 0, TRUE>> >>

OpeningDone == calls = Len(Opening)

\* one iteration of the loop (main.rs:30-68) on the next key of the opening
OpeningMove ==
    /\ pc = "loop"
    /\ calls < Len(Opening)
    /\ LET o == Opening[calls + 1]
           e == Key(o[1], FALSE, TRUE)
       IN  /\ event' = e
           /\ HandleMove(e, o[2], o[3])
    /\ calls' = calls + 1
    /\ UNCHANGED <<events, call, arg, direction, ret, result, collapseVars>>

EndgameNext ==
    \/ MainSetup(0, FALSE, 0, TRUE)
    \/ MainEnableRawMode
    \/ MainNewRenderer(<<SIZE * MAX_DIGIT_WIDTH, SIZE>>)
    \/ MainFirstDraw
    \/ OpeningMove
    \/ OpeningDone /\ ReadError
    \/ OpeningDone /\ \E e \in KeyEvents : ReadExit(e)
    \/ OpeningDone /\ \E e \in KeyEvents : ReadMove(e)
    \/ OpeningDone /\ \E e \in KeyEvents : ReadOtherKey(e)
    \/ OpeningDone /\ \E terminal_size \in Sizes : ReadResize(Resize(terminal_size))
    \/ OpeningDone /\ \E e \in KeyEvents \cup {OtherEvent} : ReadIgnored(e)

SpecEndgame == Init /\ [][EndgameNext]_vars

----------------------------------------------------------------------------
(* Definitions the claims are stated with.  The travel order is written    *)
(* out here per direction, not taken from coord_iter.                      *)

\* line o of board b, its 4 cells in the travel order of direction d
TravelLine(b, d, o) ==
    CASE d = "Left"  -> <<b[o][0], b[o][1], b[o][2], b[o][3]>>
      [] d = "Right" -> <<b[o][3], b[o][2], b[o][1], b[o][0]>>
      [] d = "Up"    -> <<b[0][o], b[1][o], b[2][o], b[3][o]>>
      [] d = "Down"  -> <<b[3][o], b[2][o], b[1][o], b[0][o]>>

\* the squares of the occupied cells of a line, in order
Tiles(l) ==
    LET occ == SelectSeq(l, LAMBDA c : c # None)
    IN  [k \in 1 .. Len(occ) |-> occ[k][1]]

RECURSIVE SumValues(_)
SumValues(sqs) == IF sqs = <<>> THEN 0 ELSE Value(Head(sqs)) + SumValues(Tail(sqs))

TileCount(b) == Cardinality({p \in Positions : b[p[2]][p[1]] # None})

(* out is obtained from in by merging disjoint pairs of equal neighbours:   *)
(* every tile of out is one tile of in, or the merge of two adjacent equal *)
(* tiles of in, and every tile of in is used exactly once                  *)
RECURSIVE IsPairing(_, _)
IsPairing(in, out) ==
    IF in = <<>> \/ out = <<>> THEN in = <<>> /\ out = <<>>
    ELSE \/ Head(out) = Head(in) /\ IsPairing(Tail(in), Tail(out))
         \/ /\ Len(in) >= 2
            /\ in[1] = in[2]
            /\ Head(out) = in[1] + 1
            /\ IsPairing(Tail(Tail(in)), Tail(out))

Rot180(b) == [y \in Index |-> [x \in Index |-> b[SIZE - 1 - y][SIZE - 1 - x]]]

----------------------------------------------------------------------------
(* C1: no double merge.  After apply_move, in every line the tiles of the   *)
(* result are a pairing of the tiles of the input (each input tile is kept *)
(* or merged once with an equal neighbour, a merged tile is never merged   *)
(* again); four equal tiles a,a,a,a give a+1,a+1 and a,a,a+1 gives         *)
(* a+1,a+1.                                                                *)
C1_NoDoubleMerge ==
    call = "apply_move" =>
        \A o \in Index :
            LET in == Tiles(TravelLine(arg, direction, o))
                out == Tiles(TravelLine(ret, direction, o))
            IN  /\ IsPairing(in, out)
                /\ 2 * Len(out) >= Len(in)
                /\ \A a \in 0 .. MaxExp :
                      /\ in = <<a, a, a, a>> => out = <<a + 1, a + 1>>
                      /\ in = <<a, a, a + 1>> => out = <<a + 1, a + 1>>

C1_Witness ==
    /\ call = "apply_move"
    /\ \E o \in Index :
          /\ Tiles(TravelLine(arg, direction, o)) = <<0, 0, 0, 0>>
          /\ Tiles(TravelLine(ret, direction, o)) = <<1, 1>>
    /\ \E o \in Index :
          /\ Tiles(TravelLine(arg, direction, o)) = <<1, 1, 1, 1>>

(* C2: merges are resolved in travel order.  A line holding three equal     *)
(* tiles a,a,a becomes a+1 at the origin cell, a in the next cell, and two *)
(* empty cells, in the travel order of the direction.                      *)
C2_TravelOrder ==
    call = "apply_move" =>
        \A o \in Index : \A a \in 0 .. MaxExp :
            Tiles(TravelLine(arg, direction, o)) = <<a, a, a>> =>
                TravelLine(ret, direction, o) = <<Some(a + 1), Some(a), None, None>>

C2_Witness ==
    /\ call = "apply_move"
    /\ direction = "Right"
    /\ \E o \in Index :
          /\ Tiles(TravelLine(arg, "Right", o)) = <<1, 1, 1>>
          /\ ret[o] = [x \in Index |-> CASE x = 3 -> Some(2)
                                         [] x = 2 -> Some(1)
                                         [] OTHER -> None]

(* C3: after apply_move the occupied cells of every line are the first      *)
(* cells in travel order, the tiles of a line stay in that line (its       *)
(* values add up to what they added up to before), and a line without two  *)
(* equal adjacent tiles keeps its tile sequence.                            *)
C3_SlideToOrigin ==
    call = "apply_move" =>
        \A o \in Index :
            LET in == Tiles(TravelLine(arg, direction, o))
                l == TravelLine(ret, direction, o)
                out == Tiles(l)
            IN  /\ \A k \in 1 .. SIZE : (l[k] # None) <=> (k <= Len(out))
                /\ Len(out) <= Len(in)
                /\ SumValues(out) = SumValues(in)
                /\ (\A k \in 1 .. (Len(in) - 1) : in[k] # in[k + 1]) => out = in

C3_Witness ==
    /\ call = "apply_move"
    /\ direction = "Left"
    /\ \E o \in Index :
          /\ arg[o] = [x \in Index |-> CASE x = 0 -> None
                                         [] x = 1 -> Some(0)
                                         [] x = 2 -> Some(1)
                                         [] x = 3 -> Some(0)]
          /\ ret[o] = [x \in Index |-> CASE x = 0 -> Some(0)
                                         [] x = 1 -> Some(1)
                                         [] x = 2 -> Some(0)
                                         [] x = 3 -> None]

(* C4 as stated: when collapse has finished, the number of tiles is the     *)
(* number before minus the number of merges, and the sum of the values is  *)
(* the sum before plus v for each merged pair (v, v).                      *)
C4_SumGrowsByV ==
    call = "collapsed" =>
        /\ Len(collapsed) = Len(Tiles(line)) - Len(merged)
        /\ SumValues(collapsed) = SumValues(Tiles(line)) + SumValues(merged)

(* C4 amended: at every point of a collapse, the tiles returned, the tile   *)
(* held and the tiles not yet read number the tiles of the line minus the  *)
(* merges so far, and their values add up to the sum of the line: a merge  *)
(* replaces a pair (v, v) by one tile 2v and leaves the sum unchanged.     *)
C4_SumPreserved ==
    LET rest == collapsed \o collapser.last_seen \o collapser.inner
    IN  /\ Len(rest) = Len(Tiles(line)) - Len(merged)
        /\ SumValues(rest) = SumValues(Tiles(line))
        /\ call = "collapsed" =>
              /\ collapser.last_seen = None /\ collapser.inner = <<>>
              /\ IsPairing(Tiles(line), collapsed)

C4_Witness ==
    /\ call = "collapsed"
    /\ Tiles(line) = <<1, 1, 0, 0>>
    /\ collapsed = <<2, 1>>
    /\ merged = <<1, 0>>

(* C5: directional symmetry.  apply_move Right is apply_move Left on the    *)
(* board rotated by 180 degrees, rotated back; Down is Up in the same way. *)
C5_Symmetry ==
    call = "apply_move" =>
        /\ direction = "Right" => ret = Rot180(apply_move(Rot180(arg), "Left"))
        /\ direction = "Down" => ret = Rot180(apply_move(Rot180(arg), "Up"))
        /\ direction = "Left" => ret = Rot180(apply_move(Rot180(arg), "Right"))
        /\ direction = "Up" => ret = Rot180(apply_move(Rot180(arg), "Down"))

C5_Witness ==
    /\ call = "apply_move"
    /\ direction = "Down"
    /\ Rot180(arg) # arg
    /\ TileCount(ret) < TileCount(arg)
    /\ ret # apply_move(arg, "Up")

(* C6: the spawner.  add_square on a board with an empty cell fills one     *)
(* empty cell with a tile of exponent 0 or 1 and changes no other cell; on *)
(* a full board it changes nothing; the board a game starts with (two      *)
(* add_square calls on the empty board) has exactly 2 tiles.               *)
C6_Spawner ==
    /\ call = "add_square" =>
          IF TileCount(arg) < SIZE * SIZE
          THEN \E p \in Positions :
                  /\ arg[p[2]][p[1]] = None
                  /\ ret[p[2]][p[1]] \in {Some(0), Some(1)}
                  /\ \A q \in Positions \ {p} : ret[q[2]][q[1]] = arg[q[2]][q[1]]
          ELSE ret = arg
    /\ call = "new_game" =>
          /\ TileCount(ret) = 2
          /\ \A p \in Positions : ret[p[2]][p[1]] \in {None, Some(0), Some(1)}

C6_Witness ==
    /\ call = "add_square"
    /\ TileCount(arg) = 2
    /\ TileCount(ret) = 3
    /\ arg[0][0] # None
    /\ ret[0][1] = Some(1)

C6_WitnessFull ==
    call = "add_square" /\ TileCount(arg) = SIZE * SIZE /\ ret = arg

----------------------------------------------------------------------------
(* Reading the output stream: what a run of commands does on the terminal. *)

\* the commands written between two values of the output stream
FrameOf(before, after) == SubSeq(after, Len(before) + 1, Len(after))

CountOp(cmds, op) == Cardinality({k \in 1 .. Len(cmds) : cmds[k].op = op})

(* the 5-column slots a run of commands visits, the cursor starting on row  *)
(* `row` at column `col`: <<row, column, text>> for each text written,     *)
(* <<row, column, <<>>>> for each slot skipped with MoveRight              *)
RECURSIVE Slots(_, _, _)
Slots(cmds, row, col) ==
    IF cmds = <<>> THEN <<>>
    ELSE LET c == Head(cmds)
             rest == Tail(cmds)
         IN  CASE c.op = "MoveUp" -> Slots(rest, row - c.n[1], col)
               [] c.op = "MoveDown" -> Slots(rest, row + c.n[1], col)
               [] c.op = "MoveToColumn" -> Slots(rest, row, c.n[1])
               [] c.op = "MoveRight" ->
                    <<<<row, col, <<>>>>>> \o Slots(rest, row, col + c.n[1])
               [] c.op = "Write" ->
                    <<<<row, col, c.text>>>> \o Slots(rest, row, col + Len(c.text))
               [] OTHER -> Slots(rest, row, col)

\* the text a cell shows in its slot: the value right-justified, or 5 blanks
SlotText(cell) ==
    IF cell = None THEN <<" ", " ", " ", " ", " ">> ELSE Fmt5(Value(cell[1]))

\* the cells that differ between two boards, in row-major order, as slots
RECURSIVE ChangedSlots(_, _, _)
ChangedSlots(old, new, i) ==
    IF i = 16 THEN <<>>
    ELSE LET y == i \div 4
             x == i % 4
         IN  (IF old[y][x] = new[y][x] THEN <<>>
              ELSE <<<<y, 5 * x, SlotText(new[y][x])>>>>)
             \o ChangedSlots(old, new, i + 1)

\* the 16 slots of a full redraw that starts on row 0: rows 1..4, columns 0,5,10,15
FullSlots(b) ==
    [i \in 1 .. 16 |->
        LET y == (i - 1) \div 4
            x == (i - 1) % 4
        IN  <<y + 1, 5 * x, IF b[y][x] = None THEN <<>> ELSE SlotText(b[y][x])>>]

----------------------------------------------------------------------------
(* C7: no-op moves.  When the key pressed maps to a move that leaves the    *)
(* board as it is, the game loop changes nothing but the event read: no    *)
(* tile is spawned, nothing is drawn (snapshot, cursor row and output are  *)
(* unchanged), the loop goes on, and applying the move again gives the     *)
(* same board.                                                             *)
C7_NoopMove ==
    [][(/\ pc = "loop"
        /\ events' = events + 1
        /\ event'.kind = "Key"
        /\ event'.press
        /\ ~is_exit_request(event')
        /\ KeyAction(event'.code) \in Moves
        /\ apply_move(board, KeyAction(event'.code)) = board)
       => /\ board' = board
          /\ renderer' = renderer
          /\ raw_mode' = raw_mode
          /\ pc' = "loop"
          /\ apply_move(apply_move(board, KeyAction(event'.code)),
                        KeyAction(event'.code)) = board]_vars

\* a no-op Up has been handled: the start board is still there, drawn once
C7_Witness ==
    /\ pc = "loop"
    /\ events = 1
    /\ event = Key("Up", FALSE, TRUE)
    /\ apply_move(board, "Up") = board
    /\ TileCount(board) = 2
    /\ CountOp(renderer.output, "Flush") = 1
    /\ renderer.old_board = Some(board)

(* C8: renderer diff minimality.  A successful draw_board with a snapshot   *)
(* present writes, in row-major order, exactly the cells that differ from  *)
(* the snapshot: the tile's value, or 5 blanks for an emptied cell, in the *)
(* cell's slot; it positions the cursor for those cells only, and for a    *)
(* board equal to the snapshot it queues no command but the flush.         *)
C8_DiffMinimal ==
    [][(/\ call' = "draw_board"
        /\ result' = "Ok"
        /\ renderer.old_board # None)
       => LET frame == FrameOf(renderer.output, renderer'.output)
              old == renderer.old_board[1]
              changed == ChangedSlots(old, arg', 0)
          IN  /\ Slots(frame, renderer.cursor_row, -1) = changed
              /\ CountOp(frame, "MoveToColumn") = Len(changed)
              /\ CountOp(frame, "MoveUp") + CountOp(frame, "MoveDown") <= Len(changed)
              /\ CountOp(frame, "ResetColor") <= Len(changed)
              /\ CountOp(frame, "MoveRight") = 0
              /\ old = arg' => frame = <<Cmd("Flush", <<>>)>>]_vars

\* two successful draws; the second changed one cell (tile 2 became tile 4)
C8_Witness ==
    /\ call = "draw_board"
    /\ result = "Ok"
    /\ calls = 2
    /\ CountOp(renderer.output, "Flush") = 2
    /\ arg[0][3] = Some(1)
    /\ CountOp(renderer.output, "ResetColor") = 2
    /\ CountOp(renderer.output, "MoveToColumn") = 5

\* two successful draws of the same board: the second wrote nothing
C8_WitnessEqual ==
    /\ call = "draw_board"
    /\ result = "Ok"
    /\ calls = 2
    /\ CountOp(renderer.output, "Flush") = 2
    /\ arg[0][3] = Some(1)
    /\ CountOp(renderer.output, "ResetColor") = 1

(* C9: terminal too small.  draw_board with fewer than 20 columns or fewer  *)
(* than 4 rows returns an error and leaves the renderer (output, snapshot, *)
(* cursor row) as it was; with at least 20 columns and 4 rows it succeeds. *)
C9_TooSmall ==
    [][call' = "draw_board"
       => IF renderer.size[1] < 20 \/ renderer.size[2] < 4
          THEN result' = "Err" /\ renderer' = renderer
          ELSE result' = "Ok"]_vars

\* a draw succeeded, the terminal was resized to 20x3, the next draw failed
C9_Witness ==
    /\ call = "draw_board"
    /\ result = "Err"
    /\ calls = 3
    /\ renderer.size = <<20, 3>>
    /\ CountOp(renderer.output, "Flush") = 1

(* C10: snapshot lifecycle.  A new renderer has no snapshot; resize clears  *)
(* it; a successful draw_board(b) stores b and ends with a flush, a failed *)
(* one leaves the snapshot alone; the draw that follows creation or a      *)
(* resize is a full redraw of the 16 cells, any other draw is incremental. *)
C10_Lifecycle ==
    [][/\ call = "new" => renderer.old_board = None
       /\ call' = "resize" => renderer'.old_board = None
       /\ (call' = "draw_board" /\ result' = "Err")
             => renderer'.old_board = renderer.old_board
       /\ (call' = "draw_board" /\ result' = "Ok")
             => LET frame == FrameOf(renderer.output, renderer'.output)
                IN  /\ renderer'.old_board = Some(arg')
                    /\ frame[Len(frame)] = Cmd("Flush", <<>>)
                    /\ IF call \in {"new", "resize"}
                       THEN /\ Slots(frame, renderer.cursor_row, 0) = FullSlots(arg')
                            /\ renderer'.cursor_row = 3
                       ELSE /\ Slots(frame, renderer.cursor_row, -1)
                               = ChangedSlots(renderer.old_board[1], arg', 0)
                            /\ CountOp(frame, "MoveRight") = 0]_vars

\* draw, resize, draw: two full redraws of 16 cells
C10_Witness ==
    /\ call = "draw_board"
    /\ result = "Ok"
    /\ calls = 3
    /\ CountOp(renderer.output, "Flush") = 2
    /\ CountOp(renderer.output, "MoveRight") + CountOp(renderer.output, "ResetColor") = 32
    /\ renderer.old_board = Some(arg)
    /\ arg # BoardNew

----------------------------------------------------------------------------
\* the cursor is hidden on the terminal: the last Hide or Show written is a Hide
CursorHidden(out) ==
    \E k \in 1 .. Len(out) :
        /\ out[k].op = "Hide"
        /\ \A j \in (k + 1) .. Len(out) : out[j].op # "Show"

(* C11: teardown on every exit path.  Whenever main returns with raw mode   *)
(* enabled (exit key, game over, an error of draw_board, an error of       *)
(* event::read, an error in Renderer::new after raw mode was enabled), raw *)
(* mode is disabled and the output ends with Show, a newline and a flush;  *)
(* in no state after main returned is raw mode on or the cursor hidden.    *)
C11_Teardown ==
    [][/\ (raw_mode /\ pc' \in {"done", "failed"})
            => LET out == renderer'.output
                   n == Len(out)
               IN  /\ raw_mode' = FALSE
                   /\ n >= 3
                   /\ SubSeq(out, n - 2, n)
                        = <<Cmd("Show", <<>>), Newline, Cmd("Flush", <<>>)>>
       /\ pc' \in {"done", "failed"}
            => raw_mode' = FALSE /\ ~CursorHidden(renderer'.output)]_vars

\* terminal::size() failed in Renderer::new after the cursor was hidden
C11_Witness ==
    /\ pc = "failed"
    /\ events = 0
    /\ renderer.cursor_row = SIZE + 1
    /\ CountOp(renderer.output, "Hide") = 1
    /\ CountOp(renderer.output, "Show") = 1
    /\ CountOp(renderer.output, "Flush") = 2
    /\ raw_mode = FALSE

----------------------------------------------------------------------------
(* The terminal lines.  Lines are counted from the line the cursor is on   *)
(* when the program starts (line 0), downwards; the terminal is taken to   *)
(* have room for every line used, so no cursor move is clipped at an edge. *)

\* the line the cursor is on after commands i .. Len(cmds), starting on `l`
RECURSIVE LineAfter(_, _, _)
LineAfter(cmds, i, l) ==
    IF i > Len(cmds) THEN l
    ELSE LET c == cmds[i]
         IN  LineAfter(cmds, i + 1,
                       CASE c.op = "MoveUp" -> l - c.n[1]
                         [] c.op = "MoveDown" -> l + c.n[1]
                         [] c = Newline -> l + 1
                         [] OTHER -> l)

\* the line the cursor is on after the whole output stream
CursorLine(out) == LineAfter(out, 1, 0)

(* C13: lose.  lose leaves the snapshot (and the rest of the renderer but  *)
(* its output) unchanged; called with the tracked cursor row r in 0..3,    *)
(* the cursor being on the line of board row r, it writes "Game over" once, *)
(* at column 5, on the second line below the line of board row 3,         *)
(* whichever r is; and 1 + SIZE - cursor_row is never negative.            *)
C13_Lose ==
    [][/\ renderer'.cursor_row <= 1 + SIZE
       /\ call' = "lose"
            => LET frame == FrameOf(renderer.output, renderer'.output)
                   at == CursorLine(renderer.output)
                   row0 == at - renderer.cursor_row
               IN  /\ renderer'.old_board = renderer.old_board
                   /\ renderer' = [renderer EXCEPT !.output = renderer'.output]
                   /\ renderer.cursor_row \in 0 .. (SIZE - 1)
                        => /\ Slots(frame, at, 0)
                                = <<<<row0 + SIZE + 1, 5, GameOverText>>>>
                           /\ frame[Len(frame)] = Cmd("Flush", <<>>)]_vars

\* lose was called with the cursor on board row 0, after a full and an
\* incremental draw
C13_Witness ==
    /\ call = "lose"
    /\ calls = 3
    /\ renderer.cursor_row = 0
    /\ renderer.old_board # None
    /\ CountOp(renderer.output, "Flush") = 3
    /\ CursorLine(renderer.output) = SIZE + 2

----------------------------------------------------------------------------
\* no direction changes the board
NoMoveChanges(b) == \A d \in Moves : apply_move(b, d) = b

\* the full board of alternating 4 and 2, 4 in the top left cell
Checkerboard == [y \in Index |-> [x \in Index |-> Some((x + y + 1) % 2)]]

\* "Game over" was written
LoseCalled(out) == \E k \in 1 .. Len(out) : out[k] = Write(GameOverText)

(* C14: game-over detection.  When the loop has accepted a move (the board  *)
(* changed), it has called lose and left the loop exactly if no direction  *)
(* changes the new board, and goes on reading otherwise; on the            *)
(* checkerboard it calls lose and leaves; whenever the loop is about to    *)
(* read an event, some direction changes the board.                        *)
C14_GameOver ==
    [][/\ (pc = "loop" /\ board' # board)
            => /\ NoMoveChanges(board')
                    <=> (pc' = "done" /\ LoseCalled(renderer'.output))
               /\ ~NoMoveChanges(board')
                    <=> (pc' = "loop" /\ ~LoseCalled(renderer'.output))
               /\ board' = Checkerboard => pc' = "done"
       /\ pc' = "loop" => ~NoMoveChanges(board')]_vars

\* the move that completed the checkerboard ended the game
C14_Witness ==
    /\ pc = "done"
    /\ board = Checkerboard
    /\ events = 2
    /\ event = Key("a", FALSE, TRUE)
    /\ LoseCalled(renderer.output)
    /\ raw_mode = FALSE

----------------------------------------------------------------------------
\* the line on which the first full redraw of a run draws board row r
FirstRedrawLine(r) ==
    LET new == RendererNew(<<>>, <<SIZE * MAX_DIGIT_WIDTH, SIZE>>)
        drawn == draw_board(new, BoardNew).r
    IN  Slots(FrameOf(new.output, drawn.output), CursorLine(new.output), 0)
            [SIZE * r + 1][1]

\* the step is a successful full redraw
FullRedrawStep ==
    call' = "draw_board" /\ result' = "Ok" /\ renderer.old_board = None

(* C15: no vertical drift.  Every full redraw (the first draw and each      *)
(* draw after a resize) visits the 16 slots of the board with board row r  *)
(* on the terminal line on which the first full redraw drew row r.         *)
C15_NoDrift ==
    [][FullRedrawStep
         => LET slots == Slots(FrameOf(renderer.output, renderer'.output),
                               CursorLine(renderer.output), 0)
            IN  /\ Len(slots) = SIZE * SIZE
                /\ \A i \in 1 .. Len(slots) :
                      slots[i][1] = FirstRedrawLine((i - 1) \div SIZE)]_vars

----------------------------------------------------------------------------
\* the <<line, column>> of each slot of a sequence of slots
Places(slots) == [i \in 1 .. Len(slots) |-> <<slots[i][1], slots[i][2]>>]

\* the places of the 16 cells in row-major order, board row 0 on line row0
FullPlaces(row0) ==
    [i \in 1 .. SIZE * SIZE |->
        <<row0 + (i - 1) \div SIZE, MAX_DIGIT_WIDTH * ((i - 1) % SIZE)>>]

\* slots given by board row, on the terminal: board row 0 on line row0
OnLines(slots, row0) ==
    [i \in 1 .. Len(slots) |-> <<row0 + slots[i][1], slots[i][2], slots[i][3]>>]

(* C16: cursor tracking.  After every successful draw_board the tracked     *)
(* cursor_row is in 0..3 and the cursor is on the line of that board row,  *)
(* board row r's line being the line on which the most recent full redraw  *)
(* drew row r: a full redraw draws rows 0..3 on consecutive lines and      *)
(* leaves the cursor, tracked as row 3, on the last of them; an            *)
(* incremental draw writes each changed cell (col, row) on the line of     *)
(* board row `row` at column 5 * col and keeps the line of row 0 where it  *)
(* was; resize and a refused draw move neither the cursor nor its tracked  *)
(* row.  Lines are counted from the line the cursor is on before the draw. *)
C16_CursorTracking ==
    [][/\ (call' = "draw_board" /\ result' = "Ok")
            => LET frame == FrameOf(renderer.output, renderer'.output)
                   row0 == LineAfter(frame, 1, 0) - renderer'.cursor_row
               IN  /\ renderer'.cursor_row \in 0 .. (SIZE - 1)
                   /\ IF renderer.old_board = None
                      THEN Places(Slots(frame, 0, 0)) = FullPlaces(row0)
                      ELSE /\ row0 = 0 - renderer.cursor_row
                           /\ Slots(frame, 0, 0)
                                = OnLines(ChangedSlots(renderer.old_board[1], arg', 0),
                                          row0)
       /\ (call' = "resize" \/ result' = "Err")
            => /\ renderer'.output = renderer.output
               /\ renderer'.cursor_row = renderer.cursor_row]_vars

\* two incremental draws after the full redraw: the second moved up one
\* line from board row 1, where the first left the cursor, to draw cell
\* (0, 0), then down again to clear the cell of row 1
C16_Witness ==
    /\ call = "draw_board"
    /\ result = "Ok"
    /\ calls = 3
    /\ renderer.cursor_row = 1
    /\ arg[0][0] # None
    /\ \E k \in 1 .. Len(renderer.output) :
          /\ renderer.output[k] = Cmd("MoveUp", <<1>>)
          /\ CountOp(SubSeq(renderer.output, k, Len(renderer.output)), "Flush") = 1
    /\ CursorLine(renderer.output) = 2

----------------------------------------------------------------------------
(* C17: no overflow of the write coordinates.  While a line is collapsed,   *)
(* the items yielded so far plus the tiles still to be read (the one held  *)
(* in last_seen included) are never more than the occupied cells of the    *)
(* line, so at most 4 items are yielded; and for the board holding the     *)
(* line as any row or column, in every direction, write_coords.next()      *)
(* never fails with "Too many cells post-collapse".                        *)
C17_NoOverflow ==
    call \in {"collapse", "collapsed"}
        => /\ Len(collapsed) + Len(collapser.inner)
                + (IF collapser.last_seen # None THEN 1 ELSE 0) <= Len(Tiles(line))
           /\ Len(collapsed) <= SIZE
           /\ Len(collapse(line)) <= Len(Tiles(line))
           /\ \A d \in Moves, o \in Index :
                 /\ ~TooManyCells(RowBoard(o, line), d)
                 /\ ~TooManyCells(ColumnBoard(o, line), d)

\* a full line without equal neighbours has been collapsed: 4 items, the most
C17_Witness ==
    /\ call = "collapsed"
    /\ Len(Tiles(line)) = SIZE
    /\ Len(collapsed) = SIZE
    /\ merged = <<>>

----------------------------------------------------------------------------
(* the text the terminal shows in the 5 columns from column c of line l     *)
(* after commands i .. Len(cmds), the cursor being on `row` at `col` and   *)
(* the slot showing `shown` before them: the last text written there (a    *)
(* newline moves to the start of the next line)                            *)
RECURSIVE ShownAfter(_, _, _, _, _, _, _)
ShownAfter(cmds, i, row, col, l, c, shown) ==
    IF i > Len(cmds) THEN shown
    ELSE LET cmd == cmds[i]
         IN  CASE cmd.op = "MoveUp" ->
                    ShownAfter(cmds, i + 1, row - cmd.n[1], col, l, c, shown)
               [] cmd.op = "MoveDown" ->
                    ShownAfter(cmds, i + 1, row + cmd.n[1], col, l, c, shown)
               [] cmd.op = "MoveToColumn" ->
                    ShownAfter(cmds, i + 1, row, cmd.n[1], l, c, shown)
               [] cmd.op = "MoveRight" ->
                    ShownAfter(cmds, i + 1, row, col + cmd.n[1], l, c, shown)
               [] cmd = Newline ->
                    ShownAfter(cmds, i + 1, row + 1, 0, l, c, shown)
               [] cmd.op = "Write" /\ cmd # Newline ->
                    ShownAfter(cmds, i + 1, row, col + Len(cmd.text), l, c,
                               IF row = l /\ col = c THEN cmd.text ELSE shown)
               [] OTHER -> ShownAfter(cmds, i + 1, row, col, l, c, shown)

\* the slot at column c of line l on a terminal that was blank at the start
Shown(out, l, c) == ShownAfter(out, 1, 0, 0, l, c, SlotText(None))

(* C18: the screen matches the board.  After each successful draw_board(b)  *)
(* the slot of every cell, on the line of the cell's row as the cursor     *)
(* tracking has it, shows the tile's value if the cell is occupied and is  *)
(* blank if it is empty, and no slot of a line above or below the board    *)
(* shows a tile.                                                           *)
C18_ScreenMatches ==
    (call = "draw_board" /\ result = "Ok")
        => LET out == renderer.output
               row0 == CursorLine(out) - renderer.cursor_row
           IN  /\ \A p \in Positions :
                     Shown(out, row0 + p[2], MAX_DIGIT_WIDTH * p[1])
                         = SlotText(arg[p[2]][p[1]])
               /\ \A l \in 0 .. CursorLine(out) + SIZE, x \in Index :
                     l \notin row0 .. (row0 + SIZE - 1)
                         => Shown(out, l, MAX_DIGIT_WIDTH * x) = SlotText(None)

----------------------------------------------------------------------------
\* two orthogonally adjacent cells of b hold equal tiles
EqualNeighbours(b) ==
    \E x \in Index, y \in Index :
        /\ b[y][x] # None
        /\ \/ x + 1 \in Index /\ b[y][x + 1] = b[y][x]
           \/ y + 1 \in Index /\ b[y + 1][x] = b[y][x]

\* b has a tile, and an empty cell or two equal neighbours
Playable(b) ==
    /\ TileCount(b) >= 1
    /\ TileCount(b) < SIZE * SIZE \/ EqualNeighbours(b)

\* boards of one row or column of any content, and the full striped boards
LineBoards ==
    {RowBoard(o, l) : o \in Index, l \in Lines}
    \cup {ColumnBoard(o, l) : o \in Index, l \in Lines}
    \cup {RowStripes(p, q) : p \in FullLines, q \in FullLines}
    \cup {ColumnStripes(p, q) : p \in FullLines, q \in FullLines}

(* C20: game over only on a dead full board.  When the game loop calls      *)
(* lose, all 16 cells of the board are occupied and no two orthogonally    *)
(* adjacent tiles are equal; a board with a tile and an empty cell, or     *)
(* with two equal orthogonal neighbours, is changed by one of the four     *)
(* moves, and lose has not been called while the game holds it.  The      *)
(* boards are those of the game and, for the moves alone, those of         *)
(* LineBoards (looked at once, on the first step of the game).             *)
C20_LoseOnlyWhenDead ==
    [][/\ (pc = "loop" /\ LoseCalled(renderer'.output))
            => /\ TileCount(board') = SIZE * SIZE
               /\ ~EqualNeighbours(board')
       /\ Playable(board')
            => /\ ~NoMoveChanges(board')
               /\ ~LoseCalled(renderer'.output)
       /\ pc = "start"
            => \A b \in LineBoards : Playable(b) => ~NoMoveChanges(b)]_vars

\* lose was called: the board is full, no two neighbours are equal
C20_Witness ==
    /\ pc = "done"
    /\ LoseCalled(renderer.output)
    /\ TileCount(board) = SIZE * SIZE
    /\ ~EqualNeighbours(board)
    /\ CountOp(renderer.output, "Show") = 1

\* a full board whose only equal neighbours are in columns: the game goes on
C20_WitnessFull ==
    /\ pc = "loop"
    /\ TileCount(board) = SIZE * SIZE
    /\ EqualNeighbours(board)
    /\ apply_move(board, "Left") = board
    /\ apply_move(board, "Right") = board
    /\ ~LoseCalled(renderer.output)

----------------------------------------------------------------------------
(* SpecPlay: one game at the level of the board, main.rs:23-53 without the  *)
(* renderer (whose output stream holds every command written so far).      *)
(* The keys pressed and the values rng returns are those of one recorded   *)
(* game, Playbook: one number per move key,                                *)
(* 32 * direction + 2 * space_choice + gen, with direction 0 = Left,       *)
(* 1 = Right, 2 = Up, 3 = Down, space_choice the value of                  *)
(* rng.gen_range(0..free_spaces.len()) and gen the value of rng.gen() as   *)
(* 0 or 1.  PlayRun1 .. PlayRun30 are stretches of keys that recur in the  *)
(* game.                                                                   *)

PlayRun1 ==
    <<1, 1>>

PlayRun2 ==
    <<65>> \o PlayRun1 \o <<1, 32, 41, 65, 65>>

PlayRun3 ==
    <<33, 33>>

PlayRun4 ==
    <<65>> \o PlayRun3

PlayRun5 ==
    <<32, 64, 1, 33>> \o PlayRun4 \o <<33, 65, 5>>

PlayRun6 ==
    <<68, 1, 3, 65, 1, 33, 65>> \o PlayRun5

PlayRun7 ==
    <<32, 64, 1, 103>> \o PlayRun4 \o <<65, 5, 7, 33, 41>> \o PlayRun4 \o
       PlayRun3 \o <<3, 49>>

PlayRun8 ==
    <<33, 49>> \o PlayRun4 \o PlayRun3 \o PlayRun3 \o PlayRun3 \o <<33, 35,
       65, 65, 33, 3>>

PlayRun9 ==
    <<65, 1, 5, 33, 37, 47, 69, 65, 37, 47>> \o PlayRun4 \o <<33, 3>> \o
       PlayRun8 \o <<33>>

PlayRun10 ==
    <<32>> \o PlayRun6 \o PlayRun7 \o <<64, 3, 3>> \o PlayRun1 \o <<65, 32,
       67, 1, 103>> \o PlayRun4 \o <<65, 5>> \o PlayRun7 \o PlayRun9 \o <<64,
       1, 6, 113, 7, 49, 66, 66, 1, 103>> \o PlayRun4 \o <<65, 5>> \o PlayRun7
       \o PlayRun9

PlayRun11 ==
    PlayRun4 \o <<33, 0, 7, 65, 65, 0>>

PlayRun12 ==
    <<41>> \o PlayRun4 \o PlayRun3 \o PlayRun3 \o PlayRun3 \o <<33, 35, 65>>
       \o PlayRun4 \o PlayRun3 \o PlayRun3 \o <<33, 0>> \o PlayRun11 \o <<65,
       33, 3>>

PlayRun13 ==
    <<33, 34, 35>> \o PlayRun4 \o <<33, 0>> \o PlayRun11

PlayRun14 ==
    <<64, 33, 1, 65, 1, 65, 3>> \o PlayRun1 \o <<0, 68>>

PlayRun15 ==
    <<65>> \o PlayRun13 \o PlayRun11 \o PlayRun14 \o PlayRun3 \o <<37, 33, 37,
       65, 0>> \o PlayRun11 \o PlayRun11 \o PlayRun14 \o PlayRun3 \o <<33, 64,
       4, 65, 65, 0>> \o PlayRun14 \o <<33, 65, 65>> \o PlayRun1 \o <<67>> \o
       PlayRun1 \o <<1, 67>> \o PlayRun1 \o <<3>> \o PlayRun1 \o <<3, 1>>

PlayRun16 ==
    <<64, 4, 67, 33, 49>> \o PlayRun4 \o <<37, 47>> \o PlayRun4 \o <<33, 3>>
       \o PlayRun8 \o PlayRun12 \o <<35, 65, 1, 103, 66>> \o PlayRun3 \o
       PlayRun3 \o PlayRun3 \o PlayRun3 \o PlayRun3 \o <<0, 65>> \o PlayRun13
       \o PlayRun15 \o <<64, 33>>

PlayRun17 ==
    <<64, 4, 67, 33, 49>> \o PlayRun4 \o <<37, 47>> \o PlayRun4 \o <<33, 3>>
       \o PlayRun8 \o PlayRun12 \o <<35, 65, 34, 3, 67, 65, 32, 64, 1, 103>>
       \o PlayRun4 \o <<65, 5>> \o PlayRun7 \o PlayRun9 \o PlayRun16 \o <<1,
       33, 65>>

PlayRun18 ==
    <<69, 33, 37>> \o PlayRun4 \o PlayRun3 \o PlayRun3 \o <<33, 35, 65, 65>>
       \o PlayRun13 \o <<65>> \o PlayRun13 \o PlayRun11 \o PlayRun14 \o <<33,
       3, 67, 33, 37>> \o PlayRun3 \o <<37>> \o PlayRun4 \o <<33, 35, 65>> \o
       PlayRun4 \o PlayRun3 \o PlayRun3 \o <<33, 0>> \o PlayRun11 \o PlayRun15
       \o <<64, 33, 3>>

PlayRun19 ==
    <<3, 65, 1, 65, 33, 5, 65, 65, 3, 47, 65, 1, 5, 70>> \o PlayRun3 \o
       PlayRun3 \o PlayRun3 \o PlayRun3 \o PlayRun3 \o <<33, 0, 65, 33>> \o
       PlayRun1 \o <<44, 65, 5, 7, 33, 41>> \o PlayRun4 \o PlayRun3 \o <<3>>
       \o PlayRun8 \o <<33>> \o PlayRun16 \o PlayRun1 \o <<3, 38>> \o PlayRun4
       \o PlayRun4 \o <<33, 3>> \o PlayRun8 \o PlayRun12 \o PlayRun18 \o
       <<43>>

PlayRun20 ==
    PlayRun11 \o PlayRun14 \o PlayRun3 \o <<33, 64, 4, 65, 65, 0>> \o
       PlayRun14 \o <<33, 65, 65>> \o PlayRun1 \o <<67>> \o PlayRun1 \o <<1,
       67>> \o PlayRun1 \o <<3>> \o PlayRun1 \o <<3, 1, 64, 2, 33, 64, 4, 65,
       65, 0>> \o PlayRun14 \o <<33, 65, 65>> \o PlayRun1 \o <<67>> \o
       PlayRun1 \o <<1, 67>> \o PlayRun1 \o <<3>> \o PlayRun1 \o <<3, 1, 71,
       65, 35, 65, 67, 65, 71, 67, 1, 67, 65, 3>> \o PlayRun1 \o <<3, 1, 65>>
       \o PlayRun1 \o <<3>> \o PlayRun1 \o <<1, 3>> \o PlayRun1 \o <<1, 9, 71,
       65, 1, 3, 1, 65>>

PlayRun21 ==
    <<36, 69, 33, 67>> \o PlayRun4 \o PlayRun3 \o PlayRun3 \o <<0, 65>> \o
       PlayRun13 \o PlayRun15 \o <<64>> \o PlayRun3 \o PlayRun3 \o <<39, 65,
       65, 64, 33, 0, 64, 33, 1, 65, 0>> \o PlayRun20 \o <<33, 35>>

PlayRun22 ==
    PlayRun16 \o PlayRun1 \o <<3, 38>> \o PlayRun4 \o PlayRun4 \o <<33, 3>> \o
       PlayRun8 \o PlayRun12 \o PlayRun18 \o <<43, 65, 3, 67, 5, 39>> \o
       PlayRun3 \o <<35, 33, 2, 69, 37, 65, 37, 47>> \o PlayRun4 \o PlayRun3
       \o PlayRun3 \o PlayRun3 \o <<35, 65, 65, 33, 3>> \o PlayRun12 \o
       PlayRun18 \o PlayRun21 \o <<34>>

PlayRun23 ==
    <<65, 1, 2, 64, 1, 48>> \o PlayRun4 \o <<33, 65, 5>> \o PlayRun7 \o
       PlayRun9 \o PlayRun22 \o <<67, 3, 37, 3, 65, 38, 65, 7, 5, 67, 5>> \o
       PlayRun3 \o <<33, 1, 109, 7, 69>> \o PlayRun3 \o <<67, 47>> \o PlayRun4
       \o <<33, 3, 49>> \o PlayRun9 \o PlayRun22 \o <<67>>

PlayRun24 ==
    <<0, 68, 33, 65, 65>> \o PlayRun1 \o <<67>> \o PlayRun1 \o <<1, 67>> \o
       PlayRun1 \o <<3>> \o PlayRun1 \o <<3, 1, 71, 65, 35, 65, 67, 65, 71,
       67, 1, 67, 65, 3>> \o PlayRun1 \o <<3, 1, 65>> \o PlayRun1 \o <<3>> \o
       PlayRun1 \o <<1, 3>> \o PlayRun1 \o <<1, 9, 71, 65, 1, 3>> \o PlayRun1
       \o <<65, 5, 2, 39, 67, 4, 65>> \o PlayRun1 \o <<1, 3>> \o PlayRun1 \o
       <<3, 1, 65>> \o PlayRun1 \o <<3>> \o PlayRun1 \o <<1, 3>> \o PlayRun1
       \o <<1, 9, 71, 65, 1, 3, 5, 65, 1, 3>> \o PlayRun1 \o <<1, 3>> \o
       PlayRun1 \o <<1, 9, 71, 65>> \o PlayRun1 \o <<3>> \o PlayRun1 \o
       PlayRun1 \o <<32, 65>> \o PlayRun1 \o <<1, 32, 67, 5, 67, 65, 32, 66,
       1, 35, 3>>

PlayRun25 ==
    PlayRun15 \o <<64>> \o PlayRun3 \o PlayRun3 \o <<39, 65, 65, 64, 33, 0,
       64, 33, 1, 65, 0>> \o PlayRun20 \o <<33, 35, 33, 41, 65, 3, 33, 35, 33,
       65, 65, 0>> \o PlayRun20 \o <<2, 33, 65, 65, 0, 69, 33, 1, 65>> \o
       PlayRun1 \o <<67, 1>> \o PlayRun24 \o <<65, 7>>

PlayRun26 ==
    <<34, 2, 65, 32, 41>> \o PlayRun4 \o PlayRun3 \o <<3>> \o PlayRun8 \o
       PlayRun12 \o PlayRun18 \o PlayRun21 \o <<33>> \o PlayRun4 \o PlayRun3
       \o PlayRun3 \o <<33, 0, 65>> \o PlayRun13 \o PlayRun25 \o <<10>>

PlayRun27 ==
    <<67>> \o PlayRun1 \o <<65>> \o PlayRun1 \o <<3>> \o PlayRun1 \o PlayRun1
       \o <<32, 65, 1, 2, 1, 65>> \o PlayRun1 \o <<1, 32, 65>> \o PlayRun1 \o
       <<1, 32, 67, 5, 67, 65, 32, 66, 1, 2>> \o PlayRun1 \o <<65, 7, 69, 65>>
       \o PlayRun1 \o <<1, 32, 67, 5, 67, 65, 32, 66, 2, 1, 65, 32, 67, 5, 67,
       65, 32, 64, 5, 67>> \o PlayRun4 \o <<65, 33, 32, 66, 1>>

PlayRun28 ==
    <<67, 65, 33, 65, 67, 65, 66, 68, 3, 1, 64, 65, 33, 1, 67, 1, 65>> \o
       PlayRun1 \o <<3>> \o PlayRun1 \o <<1, 3>> \o PlayRun1 \o <<1, 7, 69,
       65, 1, 35, 1, 65, 1, 3>> \o PlayRun1 \o <<1, 3>> \o PlayRun1 \o <<1, 7,
       69, 65, 1, 2, 1, 65>> \o PlayRun1 \o <<1, 32, 65>> \o PlayRun1 \o <<1,
       32, 67, 5, 67, 65, 32, 66, 1, 35, 3>> \o PlayRun27 \o <<35, 3>>

PlayRun29 ==
    <<5, 10, 33, 64, 0, 64, 69, 33, 65, 1, 65, 0>> \o PlayRun20 \o <<2, 33,
       65, 65, 0, 69, 33, 1, 65>> \o PlayRun1 \o <<67, 1>> \o PlayRun24 \o
       <<65, 7, 67, 11, 41, 7, 6, 33, 65, 2, 33, 5, 67>> \o PlayRun24 \o
       PlayRun28 \o <<65, 7>>

PlayRun30 ==
    <<3, 69, 47>> \o PlayRun4 \o PlayRun3 \o <<3, 33, 47>> \o PlayRun4 \o
       PlayRun3 \o PlayRun3 \o PlayRun3 \o <<33, 35, 65, 65, 33, 3, 69, 33,
       37>> \o PlayRun4 \o PlayRun3 \o PlayRun3 \o <<33, 35, 65, 65>> \o
       PlayRun13 \o <<65, 33, 3>> \o PlayRun18 \o PlayRun21 \o <<33>> \o
       PlayRun4 \o PlayRun3 \o PlayRun3 \o <<33, 0, 65>> \o PlayRun13 \o
       PlayRun25 \o <<10, 37>> \o PlayRun4 \o PlayRun3 \o <<33, 35, 65, 65>>
       \o PlayRun13 \o PlayRun25 \o PlayRun29

Playbook ==
    <<33, 103>> \o PlayRun1 \o <<65, 101, 99, 65, 1, 3>> \o PlayRun1 \o
       PlayRun1 \o <<103, 65, 1, 2, 1, 65>> \o PlayRun1 \o <<1, 32>> \o
       PlayRun2 \o <<32, 65, 1, 2, 1, 65>> \o PlayRun1 \o <<1, 32>> \o
       PlayRun2 \o <<32>> \o PlayRun2 \o PlayRun5 \o <<32, 68>> \o PlayRun1 \o
       <<5, 1, 65, 1, 32>> \o PlayRun2 \o <<32>> \o PlayRun2 \o PlayRun5 \o
       <<32>> \o PlayRun6 \o PlayRun7 \o <<64, 1, 3, 3, 7, 67, 65>> \o
       PlayRun1 \o <<1, 32, 41, 65, 65, 32>> \o PlayRun2 \o PlayRun5 \o <<32>>
       \o PlayRun6 \o PlayRun7 \o <<64, 3, 3>> \o PlayRun1 \o <<65, 32, 67, 1,
       103>> \o PlayRun4 \o <<65, 5>> \o PlayRun7 \o PlayRun9 \o <<64, 1, 6,
       65, 1, 65, 1, 32, 64, 1, 32, 64, 1, 33, 65, 32>> \o PlayRun2 \o
       PlayRun5 \o PlayRun10 \o <<64, 4, 67, 33, 49>> \o PlayRun4 \o <<37,
       47>> \o PlayRun4 \o <<33, 3>> \o PlayRun8 \o PlayRun12 \o <<35, 65, 1,
       34, 3, 7, 70, 65>> \o PlayRun1 \o <<33, 1, 48, 65, 32>> \o PlayRun2 \o
       PlayRun5 \o PlayRun10 \o PlayRun17 \o <<34, 3, 65, 1, 65, 34, 1, 69,
       40, 64>> \o PlayRun6 \o PlayRun10 \o PlayRun17 \o PlayRun19 \o <<65>>
       \o PlayRun1 \o <<1, 65>> \o PlayRun1 \o <<64, 33, 65, 32>> \o PlayRun2
       \o PlayRun5 \o PlayRun10 \o PlayRun17 \o PlayRun19 \o <<65, 1, 2, 64,
       1, 48>> \o PlayRun4 \o <<33, 65, 5>> \o PlayRun7 \o PlayRun9 \o
       PlayRun22 \o <<67>> \o PlayRun1 \o <<3, 68, 32, 65>> \o PlayRun1 \o
       <<65, 32, 69, 1, 5, 65, 103, 71, 1, 103, 71, 32, 64, 1, 103, 69, 33,
       49, 65, 32>> \o PlayRun6 \o PlayRun7 \o <<64, 3, 3>> \o PlayRun1 \o
       <<65, 32, 67, 1, 103>> \o PlayRun4 \o <<65, 5>> \o PlayRun7 \o PlayRun9
       \o <<64, 1, 6, 113, 7, 49, 66, 66, 1, 103>> \o PlayRun4 \o <<65, 5>> \o
       PlayRun7 \o PlayRun9 \o PlayRun17 \o PlayRun19 \o PlayRun23 \o
       PlayRun26 \o <<33, 65>> \o PlayRun1 \o <<1, 64, 32, 64, 1, 103, 65,
       32>> \o PlayRun6 \o PlayRun10 \o PlayRun17 \o PlayRun19 \o PlayRun23 \o
       PlayRun26 \o <<33, 65, 8, 65, 1, 37, 103, 65, 49, 65>> \o PlayRun7 \o
       PlayRun9 \o PlayRun22 \o <<67>> \o PlayRun26 \o <<33, 65>> \o PlayRun30
       \o <<10, 33, 65>> \o PlayRun1 \o <<1, 64, 32, 64, 1, 103, 65, 32>> \o
       PlayRun6 \o PlayRun10 \o PlayRun17 \o PlayRun19 \o PlayRun23 \o
       PlayRun26 \o <<33, 65, 8, 65, 1, 37, 103, 65, 49, 65>> \o PlayRun7 \o
       PlayRun9 \o PlayRun22 \o <<67>> \o PlayRun26 \o <<33, 65>> \o PlayRun30
       \o <<10, 33, 65, 8, 65, 1, 37, 103, 65, 49, 65>> \o PlayRun7 \o
       PlayRun9 \o PlayRun22 \o <<67>> \o PlayRun26 \o <<33, 65>> \o PlayRun30
       \o <<10, 33, 65>> \o PlayRun30 \o <<10, 37>> \o PlayRun4 \o PlayRun3 \o
       <<33, 35, 65, 65>> \o PlayRun13 \o PlayRun25 \o PlayRun29 \o PlayRun29
       \o <<67, 11, 41, 7, 6, 33, 65, 2, 33, 5, 67>> \o PlayRun24 \o PlayRun28
       \o PlayRun28 \o PlayRun27 \o <<2>> \o PlayRun1 \o <<65, 7, 69, 65>> \o
       PlayRun1 \o <<1, 32, 67, 5, 67, 65, 32, 66, 2, 1, 65, 32, 67, 5, 67,
       65, 32, 64, 5, 67>> \o PlayRun4 \o <<65, 33, 32, 66, 2, 1, 65, 32, 67,
       5, 67, 65, 32, 64, 5, 67>> \o PlayRun4 \o <<65, 33, 32, 64, 5, 67>> \o
       PlayRun4 \o PlayRun4 \o <<33>> \o PlayRun4 \o PlayRun3 \o <<33, 32,
       32>> \o PlayRun3 \o <<33, 65, 34, 0, 3>> \o PlayRun4 \o <<32, 69, 1,
       34, 11>>

PlayDirections == <<"Left", "Right", "Up", "Down">>

PlayInit ==
    /\ pc = "start" /\ board = BoardNew /\ raw_mode = FALSE
    /\ event = NoEvent /\ events = 0
    /\ RendererIdle /\ BoardCallIdle /\ CollapseIdle

\* main.rs:23-25, rng giving the first free cell twice, a 4 and then a 2
PlaySetup ==
    /\ pc = "start"
    /\ board' = NewGame(0, TRUE, 0, FALSE)
    /\ pc' = "loop"
    /\ UNCHANGED <<renderer, raw_mode, event, events, harnessVars>>

(* main.rs:47-53 for the next key of the Playbook: the move is accepted     *)
(* (the board changes) and add_square spawns the tile rng gives; arg,      *)
(* direction and ret record the call of apply_move                         *)
PlayMove ==
    /\ pc = "loop"
    /\ events < Len(Playbook)
    /\ LET o == Playbook[events + 1]
           d == PlayDirections[(o \div 32) + 1]
           space_choice == (o % 32) \div 2
           gen == o % 2 = 1
           new_board == apply_move(board, d)
       IN  /\ ~IsNoop(new_board, board)
           /\ space_choice < Len(free_spaces(new_board))
           /\ board' = add_square(new_board, space_choice, gen)
           /\ arg' = board
           /\ direction' = d
           /\ ret' = new_board
    /\ call' = "play"
    /\ events' = events + 1
    /\ UNCHANGED <<pc, renderer, raw_mode, event, calls, result, collapseVars>>

PlayNext == PlaySetup \/ PlayMove

SpecPlay == PlayInit /\ [][PlayNext]_vars

(* C12: tile exponent bound.  In every board of a game every tile's         *)
(* exponent is at most 15, so that Square::color is never asked for a      *)
(* colour it does not have and the value drawn has 5 characters.           *)
C12_ExponentBound ==
    \A p \in Positions :
        board[p[2]][p[1]] # None
            => /\ board[p[2]][p[1]][1] <= 15
               /\ ~color_unreachable(board[p[2]][p[1]][1])
               /\ Len(Fmt5(Value(board[p[2]][p[1]][1]))) = MAX_DIGIT_WIDTH

----------------------------------------------------------------------------
\* the sum of the tile values of a board
BoardSum(b) ==
    SumValues(Tiles(TravelLine(b, "Left", 0)) \o Tiles(TravelLine(b, "Left", 1))
              \o Tiles(TravelLine(b, "Left", 2)) \o Tiles(TravelLine(b, "Left", 3)))

====
